---- MODULE Spec2Model ----
(***************************************************************************)
(* Course registration backend: the enrollment workflow of                 *)
(* app/services/enrollment_service.py over the CRUD layer (app/crud), the  *)
(* enrollment endpoints of app/api/v1/endpoints/enrollments.py and the     *)
(* payment service of app/services/payment_service.py and the schedule     *)
(* service of app/services/schedule_service.py.                            *)
(*                                                                         *)
(* The database is the state: the courses, enrollments, payments,          *)
(* notifications and schedules tables.  Every service call is one action;  *)
(* a call that                                                             *)
(* raises leaves the tables as the failed call left them and records the   *)
(* error kind in resp.                                                     *)
(***************************************************************************)
EXTENDS Integers, Sequences, FiniteSets, TLC

VARIABLES
    courses,           \* courses table: course id -> [capacity, is_active, instructor_id]
    created_capacity,  \* history: the capacity each course was created with
    enrollments,       \* enrollments table: row id (1..Len) -> row
    payments,          \* payments table: row id (1..Len) -> row
    notifications,     \* notifications table: row id (1..Len) -> row
    refund_calls,      \* outcomes of the gateway refund calls issued, per payment id
    schedules,         \* schedules table: row id (1..Len) -> row
    reqs,              \* create_enrollment requests in flight, per worker
    resp               \* outcome of the last call

vars == <<courses, created_capacity, enrollments, payments, notifications,
          refund_calls, schedules, reqs, resp>>

\* the tables that the calls of one service leave alone
payment_tables == <<payments, refund_calls>>
notification_tables == <<notifications>>
schedule_tables == <<schedules>>

----------------------------------------------------------------------------
(* Bounds of the model *)

MaxCapacity == 2      \* courses are created with capacity 1..MaxCapacity
MaxSeats == 3         \* the capacity counter is not incremented beyond this
MaxNotes == 1         \* rejection reasons appended to one enrollment's notes
MaxEnrollments == 3   \* enrollment rows under interleaved requests
MaxPayments == 2      \* payment rows
MaxRefunds == 2       \* gateway refund calls issued for one payment
MaxSchedules == 2     \* schedule rows
MaxNotifications == 102  \* notification rows
MaxOthers == 1        \* notifications of the user who is not deleting
MaxRows == 2          \* enrollment rows under direct CRUD calls

\* default page size of the list queries (limit: int = 100)
DefaultLimit == 100

\* request workers that run create_enrollment side by side
Workers == {1, 2}

----------------------------------------------------------------------------
(* Users table (static): id -> role.  UserRole of domain/models/user.py. *)

Users == {1, 2, 3, 4, 5}

UserRole(u) ==
    CASE u \in {1, 2} -> "student"
      [] u \in {3, 5} -> "instructor"
      [] OTHER        -> "admin"

Courses == {1}

\* ids that name no row of their table
Absent == {9}

\* crud.user.get / crud.course.get / crud.enrollment.get: None when absent
user_get(id) == id \in Users
course_get(id) == id \in Courses
enrollment_get(id) == id \in DOMAIN enrollments

\* crud_user.is_student, called at enrollment_service.py:154
is_student(u) == UserRole(u) = "student"

----------------------------------------------------------------------------
(* Enumerations of domain/models/enrollment.py *)

EnrollmentStatus == {"pending", "approved", "rejected", "completed"}
EnrollmentPaymentStatus == {"pending", "paid", "refunded", "failed"}

\* Optional[str] notes: a sequence of text pieces, <<>> for None
NoNotes == <<>>
ClientNotes == <<"n">>

Unset == "unset"   \* field absent from the request body (exclude_unset)
Null == "null"     \* field present with the value None

----------------------------------------------------------------------------
(* Schemas of domain/schemas/enrollment.py *)

\* EnrollmentCreate: student_id, course_id, notes, status, payment_status;
\* status and payment_status default to pending but are fields of the body.
EnrollmentCreate(sids, cids, sts, pss, nts) ==
    [student_id : sids, course_id : cids, status : sts,
     payment_status : pss, notes : nts]

\* EnrollmentUpdate: status, payment_status, notes, all optional
EnrollmentUpdate(sts, pss, nts) ==
    [status : sts, payment_status : pss, notes : nts]

----------------------------------------------------------------------------
(* CRUD layer *)

\* (mutant) the insert is refused when the course has no seat left
crud_enrollment_create_if_seat(rows, obj_in) ==
    IF courses[obj_in.course_id].capacity > 0
    THEN Append(rows, [student_id     |-> obj_in.student_id,
                       course_id      |-> obj_in.course_id,
                       status         |-> obj_in.status,
                       payment_status |-> obj_in.payment_status,
                       notes          |-> obj_in.notes])
    ELSE rows

\* CRUDBase.create on the enrollments table: the encoded body becomes the row
crud_enrollment_create(rows, obj_in) ==
    Append(rows, [student_id     |-> obj_in.student_id,
                  course_id      |-> obj_in.course_id,
                  status         |-> obj_in.status,
                  payment_status |-> obj_in.payment_status,
                  notes          |-> obj_in.notes])

\* (mutant) only rows that still hold a seat count as an enrollment
check_student_enrolled_unrejected(rows, student_id, course_id) ==
    \E i \in DOMAIN rows :
        /\ rows[i].student_id = student_id /\ rows[i].course_id = course_id
        /\ rows[i].status # "rejected"

\* CRUDEnrollment.check_student_enrolled: any row of the pair, in any status
check_student_enrolled(rows, student_id, course_id) ==
    \E i \in DOMAIN rows :
        rows[i].student_id = student_id /\ rows[i].course_id = course_id

Max(a, b) == IF a >= b THEN a ELSE b

\* (mutant) the capacity is not clamped at 0
update_capacity_unclamped(cs, course_id, change) ==
    IF course_id \in DOMAIN cs
    THEN [cs EXCEPT ![course_id].capacity = @ + change]
    ELSE cs

\* CRUDCourse.update_capacity: capacity = max(0, capacity + change)
update_capacity(cs, course_id, change) ==
    IF course_id \in DOMAIN cs
    THEN [cs EXCEPT ![course_id].capacity = Max(0, @ + change)]
    ELSE cs

\* CRUDEnrollment.update_status
update_status(rows, id, status) == [rows EXCEPT ![id].status = status]

\* CRUDEnrollment.update_payment_status
update_payment_status(rows, id, ps) == [rows EXCEPT ![id].payment_status = ps]

\* (mutant) a field the update object does not set is reset to its default
crud_enrollment_update_all(row, obj_in) ==
    [row EXCEPT
       !.status = IF obj_in.status = Unset THEN "pending" ELSE obj_in.status,
       !.payment_status =
           IF obj_in.payment_status = Unset THEN "pending" ELSE obj_in.payment_status,
       !.notes = IF obj_in.notes = Unset THEN NoNotes
                 ELSE IF obj_in.notes = Null THEN NoNotes ELSE obj_in.notes]

\* CRUDBase.update with an EnrollmentUpdate: only the fields that were set
\* in the body are assigned (a field set to None is assigned None).
crud_enrollment_update(row, obj_in) ==
    [row EXCEPT
       !.status = IF obj_in.status = Unset THEN @ ELSE obj_in.status,
       !.payment_status =
           IF obj_in.payment_status = Unset THEN @ ELSE obj_in.payment_status,
       !.notes = IF obj_in.notes = Unset THEN @
                 ELSE IF obj_in.notes = Null THEN NoNotes ELSE obj_in.notes]

\* status and payment_status are nullable=False columns: the commit of a row
\* holding None in one of them raises IntegrityError and stores nothing.
enrollment_row_commits(row) ==
    row.status # Null /\ row.payment_status # Null

----------------------------------------------------------------------------
(* Responses *)

\* the call and how it ended: "ok" or the kind of the error raised
\* and, for an error, its detail text
\* and what the call was about (0 where it does not apply)
Response(op, result, detail, student_id, course_id, id) ==
    [op |-> op, result |-> result, detail |-> detail,
     student_id |-> student_id, course_id |-> course_id, id |-> id]

NoResponse == Response("none", "none", "", 0, 0, 0)

Raised(kind, detail) == [result |-> kind, detail |-> detail]
Passed == Raised("ok", "")

----------------------------------------------------------------------------
(* EnrollmentService (services/enrollment_service.py) *)

\* (mutant) the is_active check left out
course_is_active_unchecked(c) == TRUE

\* (mutant) the capacity check off by one
course_is_full_below_zero(c) == c.capacity < 0

\* line 163: the course must be active
course_is_active(c) == c.is_active

\* line 174: "Course is full" when the capacity counter is used up
course_is_full(c) == c.capacity <= 0

\* The validation chain of create_enrollment, lines 148-175, in order:
\* the error raised, or "ok".
create_enrollment_check(obj_in) ==
    IF ~user_get(obj_in.student_id)
    THEN Raised("NotFound", "Student not found")
    ELSE IF ~is_student(obj_in.student_id)
    THEN Raised("Validation", "User is not a student")
    ELSE IF ~course_get(obj_in.course_id)
    THEN Raised("NotFound", "Course not found")
    ELSE IF ~course_is_active(courses[obj_in.course_id])
    THEN Raised("Validation", "Course is not active")
    ELSE IF check_student_enrolled(enrollments, obj_in.student_id, obj_in.course_id)
    THEN Raised("Validation", "Student is already enrolled in this course")
    ELSE IF course_is_full(courses[obj_in.course_id])
    THEN Raised("Validation", "Course is full")
    ELSE Passed

\* create_enrollment, lines 127-183, run as one request
create_enrollment(obj_in) ==
    LET r == create_enrollment_check(obj_in) IN
    /\ IF r = Passed
       THEN /\ enrollments' = crud_enrollment_create(enrollments, obj_in)
            /\ courses' = update_capacity(courses, obj_in.course_id, -1)
            /\ resp' = Response("create_enrollment", "ok", "", obj_in.student_id,
                                obj_in.course_id, Len(enrollments) + 1)
       ELSE /\ UNCHANGED <<enrollments, courses>>
            /\ resp' = Response("create_enrollment", r.result, r.detail,
                                obj_in.student_id, obj_in.course_id, 0)
    /\ UNCHANGED <<created_capacity, schedule_tables, payment_tables, notification_tables, reqs>>

\* update_enrollment, lines 185-211: a generic partial update of the row
update_enrollment_effect(id, obj_in) ==
    IF ~enrollment_get(id)
    THEN /\ resp' = Response("update_enrollment", "NotFound", "Enrollment not found",
                            0, 0, id)
         /\ UNCHANGED enrollments
    ELSE LET row == crud_enrollment_update(enrollments[id], obj_in) IN
         IF enrollment_row_commits(row)
         THEN /\ enrollments' = [enrollments EXCEPT ![id] = row]
              /\ resp' = Response("update_enrollment", "ok", "",
                            0, 0, id)
         ELSE /\ resp' = Response("update_enrollment", "IntegrityError", "NOT NULL constraint failed",
                            0, 0, id)
              /\ UNCHANGED enrollments

update_enrollment(id, obj_in) ==
    /\ update_enrollment_effect(id, obj_in)
    /\ UNCHANGED <<courses, created_capacity, schedule_tables, payment_tables, notification_tables,
                   reqs>>

\* (mutant) reject also accepts an approved enrollment
can_reject_approved(row) == row.status \in {"pending", "approved"}

\* the status guards of the four workflow calls
can_approve(row) == row.status = "pending"                    \* line 238
can_reject(row) == row.status = "pending"                     \* line 269
can_cancel(row) == row.status \notin {"completed", "rejected"}  \* line 309
can_complete(row) == row.status = "approved"                  \* line 345

\* approve_enrollment, lines 213-241
approve_enrollment(id) ==
    /\ IF ~enrollment_get(id)
       THEN /\ resp' = Response("approve_enrollment", "NotFound", "Enrollment not found",
                            0, 0, id)
            /\ UNCHANGED enrollments
       ELSE IF ~can_approve(enrollments[id])
       THEN /\ resp' = Response("approve_enrollment", "Validation", "Only pending enrollments can be approved",
                            0, 0, id)
            /\ UNCHANGED enrollments
       ELSE /\ enrollments' = update_status(enrollments, id, "approved")
            /\ resp' = Response("approve_enrollment", "ok", "",
                            0, 0, id)
    /\ UNCHANGED <<courses, created_capacity, schedule_tables, payment_tables, notification_tables,
                   reqs>>

\* lines 275-277: the reason, when given, is appended to the notes
rejection_notes(notes, reason) ==
    IF reason = NoNotes THEN notes ELSE notes \o reason

\* reject_enrollment, lines 243-282
reject_enrollment(id, reason) ==
    /\ IF ~enrollment_get(id)
       THEN /\ resp' = Response("reject_enrollment", "NotFound", "Enrollment not found",
                            0, 0, id)
            /\ UNCHANGED <<enrollments, courses>>
       ELSE IF ~can_reject(enrollments[id])
       THEN /\ resp' = Response("reject_enrollment", "Validation", "Only pending enrollments can be rejected",
                            0, 0, id)
            /\ UNCHANGED <<enrollments, courses>>
       ELSE /\ Len(rejection_notes(enrollments[id].notes, reason)) <= MaxNotes
            /\ courses[enrollments[id].course_id].capacity < MaxSeats
            /\ enrollments' =
                  [update_status(enrollments, id, "rejected") EXCEPT
                      ![id].notes = rejection_notes(@, reason)]
            /\ courses' = update_capacity(courses, enrollments[id].course_id, 1)
            /\ resp' = Response("reject_enrollment", "ok", "",
                            0, 0, id)
    /\ UNCHANGED <<created_capacity, schedule_tables, payment_tables, notification_tables, reqs>>

\* cancel_enrollment, lines 284-318
cancel_enrollment(id) ==
    /\ IF ~enrollment_get(id)
       THEN /\ resp' = Response("cancel_enrollment", "NotFound", "Enrollment not found",
                            0, 0, id)
            /\ UNCHANGED <<enrollments, courses>>
       ELSE IF ~can_cancel(enrollments[id])
       THEN /\ resp' = Response("cancel_enrollment", "Validation", "Cannot cancel completed or rejected enrollments",
                            0, 0, id)
            /\ UNCHANGED <<enrollments, courses>>
       ELSE /\ courses[enrollments[id].course_id].capacity < MaxSeats
            /\ enrollments' = update_status(enrollments, id, "rejected")
            /\ courses' = update_capacity(courses, enrollments[id].course_id, 1)
            /\ resp' = Response("cancel_enrollment", "ok", "",
                            0, 0, id)
    /\ UNCHANGED <<created_capacity, schedule_tables, payment_tables, notification_tables, reqs>>

\* complete_enrollment, lines 320-348
complete_enrollment(id) ==
    /\ IF ~enrollment_get(id)
       THEN /\ resp' = Response("complete_enrollment", "NotFound", "Enrollment not found",
                            0, 0, id)
            /\ UNCHANGED enrollments
       ELSE IF ~can_complete(enrollments[id])
       THEN /\ resp' = Response("complete_enrollment", "Validation", "Only approved enrollments can be completed",
                            0, 0, id)
            /\ UNCHANGED enrollments
       ELSE /\ enrollments' = update_status(enrollments, id, "completed")
            /\ resp' = Response("complete_enrollment", "ok", "",
                            0, 0, id)
    /\ UNCHANGED <<courses, created_capacity, schedule_tables, payment_tables, notification_tables,
                   reqs>>

\* CourseService.update_course with a CourseUpdate that sets is_active only
update_course(id, is_active) ==
    /\ IF ~course_get(id)
       THEN /\ resp' = Response("update_course", "NotFound", "Course not found",
                            0, id, 0)
            /\ UNCHANGED courses
       ELSE /\ courses' = [courses EXCEPT ![id].is_active = is_active]
            /\ resp' = Response("update_course", "ok", "",
                            0, id, 0)
    /\ UNCHANGED <<created_capacity, schedule_tables, enrollments, payment_tables,
                   notification_tables, reqs>>

----------------------------------------------------------------------------
(* The CRUD layer called directly, as the unit tests of app/tests call it *)

\* the outcome of crud_course.update_capacity: the capacity before the call,
\* 0 when the course does not exist (the call returns None)
CapacityResponse(course_id, change, before) ==
    [op |-> "crud.update_capacity", course_id |-> course_id, change |-> change,
     before |-> before]

\* crud_course.update_capacity(course_id, change), crud_course.py lines 175-197
crud_update_capacity(course_id, change) ==
    /\ course_get(course_id) => courses[course_id].capacity + change <= MaxSeats
    /\ courses' = update_capacity(courses, course_id, change)
    /\ resp' = CapacityResponse(course_id, change,
                   IF course_get(course_id) THEN courses[course_id].capacity ELSE 0)
    /\ UNCHANGED <<created_capacity, schedule_tables, enrollments, payment_tables,
                   notification_tables, reqs>>

\* the outcome of a direct CRUD call on the enrollments table
CrudResponse(op, result, id, obj_in) ==
    [op |-> op, result |-> result, id |-> id, obj_in |-> obj_in]

\* crud.enrollment.create(obj_in), crud/base.py lines 74-93
crud_create(obj_in) ==
    /\ Len(enrollments) < MaxRows
    /\ enrollments' = crud_enrollment_create(enrollments, obj_in)
    /\ resp' = CrudResponse("crud.create", "ok", Len(enrollments) + 1, obj_in)
    /\ UNCHANGED <<courses, created_capacity, schedule_tables, payment_tables,
                   notification_tables, reqs>>

\* crud.enrollment.update(db_obj, obj_in), crud/base.py lines 95-129, on the
\* row db_obj that the caller has read
crud_update(id, obj_in) ==
    /\ enrollment_get(id)
    /\ LET row == crud_enrollment_update(enrollments[id], obj_in) IN
       IF enrollment_row_commits(row)
       THEN /\ enrollments' = [enrollments EXCEPT ![id] = row]
            /\ resp' = CrudResponse("crud.update", "ok", id, obj_in)
       ELSE /\ resp' = CrudResponse("crud.update", "IntegrityError", id, obj_in)
            /\ UNCHANGED enrollments
    /\ UNCHANGED <<courses, created_capacity, schedule_tables, payment_tables,
                   notification_tables, reqs>>

----------------------------------------------------------------------------
(* create_enrollment as interleaved requests.  Each request has its own
   database session; every crud call commits, so another request can run
   between the validation reads (lines 148-175), the insert (line 178) and
   the read and the write of update_capacity (crud_course.py lines 190-196). *)

Idle == [pc |-> "idle"]

\* lines 148-175: the request reads the tables and raises, or goes on
create_enrollment_validate(w, obj_in) ==
    LET r == create_enrollment_check(obj_in) IN
    /\ reqs[w].pc = "idle"
    /\ Len(enrollments) + Cardinality({v \in Workers : reqs[v].pc # "idle"})
           < MaxEnrollments
    /\ IF r = Passed
       THEN /\ reqs' = [reqs EXCEPT ![w] = [pc |-> "insert", obj_in |-> obj_in]]
            /\ UNCHANGED resp
       ELSE /\ resp' = Response("create_enrollment", r.result, r.detail,
                                obj_in.student_id, obj_in.course_id, 0)
            /\ UNCHANGED reqs
    /\ UNCHANGED <<courses, created_capacity, schedule_tables, enrollments, payment_tables,
                   notification_tables>>

\* line 178: crud_enrollment.create
create_enrollment_insert(w) ==
    /\ reqs[w].pc = "insert"
    /\ enrollments' = crud_enrollment_create(enrollments, reqs[w].obj_in)
    /\ reqs' = [reqs EXCEPT ![w] =
                   [pc |-> "capacity_read", obj_in |-> reqs[w].obj_in,
                    id |-> Len(enrollments) + 1]]
    /\ UNCHANGED <<courses, created_capacity, schedule_tables, payment_tables,
                   notification_tables, resp>>

\* crud_course.py line 190: update_capacity reads the course
create_enrollment_capacity_read(w) ==
    /\ reqs[w].pc = "capacity_read"
    /\ reqs' = [reqs EXCEPT ![w] =
                   [pc |-> "capacity_write", obj_in |-> reqs[w].obj_in,
                    id |-> reqs[w].id,
                    capacity |-> courses[reqs[w].obj_in.course_id].capacity]]
    /\ UNCHANGED <<courses, created_capacity, schedule_tables, enrollments, payment_tables,
                   notification_tables, resp>>

\* crud_course.py lines 193-196: capacity = max(0, capacity read + change),
\* then the request returns the enrollment
create_enrollment_capacity_write(w) ==
    /\ reqs[w].pc = "capacity_write"
    /\ courses' = [courses EXCEPT ![reqs[w].obj_in.course_id].capacity =
                      Max(0, reqs[w].capacity - 1)]
    /\ resp' = Response("create_enrollment", "ok", "",
                        reqs[w].obj_in.student_id, reqs[w].obj_in.course_id,
                        reqs[w].id)
    /\ reqs' = [reqs EXCEPT ![w] = Idle]
    /\ UNCHANGED <<created_capacity, schedule_tables, enrollments, payment_tables,
                   notification_tables>>

----------------------------------------------------------------------------
(* Notifications: services/notification_service.py *)

\* create_system_notification, lines 203-235, through create_notification,
\* lines 74-102: one unread row of type system for the user
create_system_notification(rows, user_id, title, entity_id, entity_type) ==
    Append(rows, [user_id |-> user_id, title |-> title,
                  notification_type |-> "system", entity_id |-> entity_id,
                  entity_type |-> entity_type, is_read |-> FALSE])

\* what the SMTP server does with one message: EmailService._send_email,
\* email_service.py lines 118-163, answers "True" when it was sent and
\* "False" when the connection or the delivery raised (the except clause of
\* lines 161-163 logs and returns)
SmtpOutcomes == {"sent", "error"}

\* (mutant) a failed delivery is raised to the caller
send_email_raising(smtp) == IF smtp = "sent" THEN "True" ELSE "raised"

send_email(smtp) == IF smtp = "sent" THEN "True" ELSE "False"

\* the outcome of create_system_notification, with its arguments: email is
\* what the delivery answered, "none" when no email was asked for
NotificationResponse(result, id, user_id, wants_email, email) ==
    [op |-> "create_system_notification", result |-> result, id |-> id,
     user_id |-> user_id, send_email |-> wants_email, email |-> email]

\* create_notification, lines 74-102, called by create_system_notification
\* (line 235): the row is committed, then the email is sent if asked for
\* (every user has an email: users.email is not nullable)
create_notification(user_id, title, wants_email, smtp) ==
    /\ Len(notifications) < MaxNotifications
    /\ notifications' = create_system_notification(notifications, user_id, title, 0, Null)
    /\ LET email == IF wants_email THEN send_email(smtp) ELSE "none" IN
       resp' = NotificationResponse(IF email = "raised" THEN "SMTPException" ELSE "ok",
                                    Len(notifications) + 1, user_id, wants_email, email)
    /\ UNCHANGED <<courses, created_capacity, enrollments, payment_tables,
                   schedule_tables, reqs>>

\* NotificationRepository.get_multi_by_filters(user_id=...), lines 232-274:
\* the rows of the user, newest first, the first skip of them left out and at
\* most limit of them returned.  Rows are created in table order, so the
\* newest row is the last; the result is the set of the rows' positions among
\* the first i rows.
RECURSIVE get_multi_by_filters(_, _, _, _, _)
get_multi_by_filters(rows, user_id, i, skip, limit) ==
    IF i = 0 \/ limit = 0 THEN {}
    ELSE IF rows[i].user_id # user_id
    THEN get_multi_by_filters(rows, user_id, i - 1, skip, limit)
    ELSE IF skip > 0
    THEN get_multi_by_filters(rows, user_id, i - 1, skip - 1, limit)
    ELSE {i} \cup get_multi_by_filters(rows, user_id, i - 1, 0, limit - 1)

\* get_filtered_notifications, lines 183-201, as delete_all_notifications
\* calls it: skip and limit keep their defaults
get_filtered_notifications(rows, user_id) ==
    get_multi_by_filters(rows, user_id, Len(rows), 0, DefaultLimit)

\* notification_service.remove, called for each row found: the rows at the
\* positions in ids are deleted, the others keep their order
RECURSIVE notification_remove(_, _, _)
notification_remove(rows, ids, i) ==
    IF i > Len(rows) THEN <<>>
    ELSE (IF i \in ids THEN <<>> ELSE <<rows[i]>>) \o notification_remove(rows, ids, i + 1)

\* the outcome of DELETE /notifications/
DeleteAllResponse(status_code, count, user_id) ==
    [op |-> "delete_all_notifications", result |-> status_code, count |-> count,
     user_id |-> user_id]

\* delete_all_notifications, api/v1/endpoints/notifications.py lines 264-292
delete_all_notifications(current_user) ==
    /\ LET found == get_filtered_notifications(notifications, current_user) IN
          /\ notifications' = notification_remove(notifications, found, 1)
          /\ resp' = DeleteAllResponse("200", Cardinality(found), current_user)
    /\ UNCHANGED <<courses, created_capacity, enrollments, payment_tables,
                   schedule_tables, reqs>>

----------------------------------------------------------------------------
(* The enrollment endpoints: api/v1/endpoints/enrollments.py.
   A response is the status code and the detail of the HTTPException. *)

ApiResponse(op, status_code, detail, user, id) ==
    [op |-> op, result |-> status_code, detail |-> detail, user |-> user,
     id |-> id]

\* truth value of an Optional request field: None (given or defaulted) is false
truthy(v) == v \notin {Unset, Null}

\* POST /enrollments/, lines 127-182
api_create_enrollment(current_user, enrollment_in) ==
    LET r == create_enrollment_check(enrollment_in)
        id == Len(enrollments) + 1
        instructor_id == courses[enrollment_in.course_id].instructor_id
        student_notified ==
            create_system_notification(notifications, enrollment_in.student_id,
                                       "Enrollment Submitted", id, "enrollment")
    IN
    /\ IF /\ UserRole(current_user) = "student"
          /\ enrollment_in.student_id # current_user
       THEN /\ resp' = ApiResponse("api_create_enrollment", "403",
                           "Students can only enroll themselves", current_user, 0)
            /\ UNCHANGED <<enrollments, courses, notifications>>
       ELSE IF r = Passed
       THEN /\ enrollments' = crud_enrollment_create(enrollments, enrollment_in)
            /\ courses' = update_capacity(courses, enrollment_in.course_id, -1)
            /\ notifications' =
                  IF instructor_id # 0      \* line 164; 0 stands for None
                  THEN create_system_notification(student_notified, instructor_id,
                                                  "New Enrollment", id, "enrollment")
                  ELSE student_notified
            /\ resp' = ApiResponse("api_create_enrollment", "200", "",
                                   current_user, id)
       ELSE /\ resp' = ApiResponse("api_create_enrollment",
                           IF r.result = "Validation" THEN "400" ELSE "500",
                           r.detail, current_user, 0)
            /\ UNCHANGED <<enrollments, courses, notifications>>
    /\ UNCHANGED <<created_capacity, schedule_tables, payment_tables, reqs>>

\* (mutant) the student guard looks at status only
student_sets_status(enrollment_in) == truthy(enrollment_in.status)

\* line 254: what a student request may not carry
student_sets_status_or_payment(enrollment_in) ==
    truthy(enrollment_in.status) \/ truthy(enrollment_in.payment_status)

\* lines 237-265: the HTTPException raised before the update, "" for none
update_enrollment_refusal(current_user, id, enrollment_in) ==
    IF ~enrollment_get(id) THEN "Enrollment not found"
    ELSE IF /\ UserRole(current_user) = "student"
            /\ enrollments[id].student_id # current_user
    THEN "Not authorized to update this enrollment"
    ELSE IF /\ UserRole(current_user) = "instructor"
            /\ courses[enrollments[id].course_id].instructor_id # current_user
    THEN "Not authorized to update this enrollment"
    ELSE IF /\ UserRole(current_user) = "student"
            /\ student_sets_status_or_payment(enrollment_in)
    THEN "Students can only update notes"
    ELSE IF /\ UserRole(current_user) = "instructor"
            /\ truthy(enrollment_in.payment_status)
    THEN "Instructors cannot update payment status"
    ELSE ""

\* EnrollmentService.update, called at line 268: the partial update of the
\* row that update_enrollment performs
enrollment_service_update(row, obj_in) == crud_enrollment_update(row, obj_in)

\* line 271: enrollment is the object the update has just changed, so the
\* request's status is compared with the status after the update
status_changed(enrollment_in, enrollment) ==
    truthy(enrollment_in.status) /\ enrollment_in.status # enrollment.status

\* PUT /enrollments/{id}, lines 218-288: every exception raised inside the
\* try block, the endpoint's own HTTPExceptions included, is answered as 500
api_update_enrollment(current_user, id, enrollment_in) ==
    LET refusal == update_enrollment_refusal(current_user, id, enrollment_in) IN
    /\ IF refusal # ""
       THEN /\ resp' = ApiResponse("api_update_enrollment", "500", refusal,
                                   current_user, id)
            /\ UNCHANGED <<enrollments, notifications>>
       ELSE LET row == enrollment_service_update(enrollments[id], enrollment_in) IN
            IF ~enrollment_row_commits(row)
            THEN /\ resp' = ApiResponse("api_update_enrollment", "500",
                               "NOT NULL constraint failed", current_user, id)
                 /\ UNCHANGED <<enrollments, notifications>>
            ELSE /\ enrollments' = [enrollments EXCEPT ![id] = row]
                 /\ notifications' =
                       IF status_changed(enrollment_in, row)
                       THEN create_system_notification(notifications,
                                row.student_id, "Enrollment status", id,
                                "enrollment")
                       ELSE notifications
                 /\ resp' = ApiResponse("api_update_enrollment", "200", "",
                                        current_user, id)
    /\ UNCHANGED <<courses, created_capacity, schedule_tables, payment_tables, reqs>>

----------------------------------------------------------------------------
(* Payments: domain/models/payment.py, crud/crud_payment.py,
   services/payment_service.py *)

\* PaymentStatus of domain/models/payment.py, the enumeration that
\* payment_service.py imports
PaymentStatus == {"pending", "completed", "failed", "refunded"}

\* payment intent ids of the gateway
IntentIds == {"pi_1", "pi_2"}

\* PaymentCreate, domain/schemas/payment.py lines 45-64: amount is validated
\* to be positive; transaction_id is optional and status is a body field
PaymentCreate(eids, amounts, tids, sts) ==
    [enrollment_id : eids, amount : {a \in amounts : a > 0},
     transaction_id : tids, status : sts]

payment_get(id) == id \in DOMAIN payments

\* crud_payment.get_by_transaction_id, lines 62-82: 0 for None
get_by_transaction_id(transaction_id) ==
    IF \E p \in DOMAIN payments : payments[p].transaction_id = transaction_id
    THEN CHOOSE p \in DOMAIN payments :
             payments[p].transaction_id = transaction_id
    ELSE 0

\* transaction_id is a unique column: a second row with the same non-null
\* value does not commit
transaction_id_free(transaction_id) ==
    \/ transaction_id = Null
    \/ \A p \in DOMAIN payments : payments[p].transaction_id # transaction_id

\* the outcome of create_payment, with the body it was called with
PaymentResponse(result, detail, id, obj_in) ==
    [op |-> "create_payment", result |-> result, detail |-> detail, id |-> id,
     obj_in |-> obj_in]

\* create_payment, lines 75-100
create_payment(obj_in) ==
    /\ Len(payments) < MaxPayments
    /\ IF ~enrollment_get(obj_in.enrollment_id)
       THEN /\ resp' = PaymentResponse("NotFound", "Enrollment not found", 0,
                                       obj_in)
            /\ UNCHANGED <<payments, refund_calls>>
       ELSE IF ~transaction_id_free(obj_in.transaction_id)
       THEN /\ resp' = PaymentResponse("IntegrityError",
                                       "UNIQUE constraint failed", 0, obj_in)
            /\ UNCHANGED <<payments, refund_calls>>
       ELSE /\ payments' = Append(payments, obj_in)
            /\ refund_calls' = Append(refund_calls, <<>>)
            /\ resp' = PaymentResponse("ok", "", Len(payments) + 1, obj_in)
    /\ UNCHANGED <<courses, created_capacity, schedule_tables, enrollments, notification_tables,
                   reqs>>

\* the outcome of create_payment_intent, with what the gateway answered
IntentResponse(result, detail, id, intent) ==
    [op |-> "create_payment_intent", result |-> result, detail |-> detail,
     id |-> id, intent |-> intent]

\* (mutant) a gateway error leaves the payment as it was
payment_after_intent_error_unchanged(payment) == payment

\* lines 157-160: the except clause marks the payment failed
payment_after_intent_error(payment) == [payment EXCEPT !.status = "failed"]

\* create_payment_intent, lines 102-161.  intent is the id of the intent the
\* gateway created, or "error" when the gateway call raised.
create_payment_intent(payment_id, intent) ==
    /\ IF ~payment_get(payment_id)
       THEN /\ resp' = IntentResponse("NotFound", "Payment not found",
                                      payment_id, intent)
            /\ UNCHANGED payments
       ELSE IF intent = "error"
       THEN /\ payments' = [payments EXCEPT ![payment_id] =
                               payment_after_intent_error(@)]
            /\ resp' = IntentResponse("Validation", "gateway error", payment_id,
                                      intent)
       ELSE /\ transaction_id_free(intent)
            /\ payments' = [payments EXCEPT ![payment_id].transaction_id = intent]
            /\ resp' = IntentResponse("ok", "", payment_id, intent)
    /\ UNCHANGED <<courses, created_capacity, schedule_tables, enrollments, notification_tables,
                   refund_calls, reqs>>

\* the names of the PaymentStatus that payment_service.py imports: reading
\* any other attribute of it raises AttributeError
PaymentStatusNames == {"PENDING", "COMPLETED", "FAILED", "REFUNDED"}

\* the outcome of a webhook call, with the event it was called with
WebhookResponse(result, detail, id, event_type, transaction_id) ==
    [op |-> "process_payment_webhook", result |-> result, detail |-> detail,
     id |-> id, event_type |-> event_type, transaction_id |-> transaction_id]

\* (mutant) every event type is processed
webhook_event_any(event_type) == TRUE

\* line 182: only successful payment events are processed
webhook_event_processed(event_type) == event_type = "payment_intent.succeeded"

\* process_payment_webhook, lines 163-205: how the call ends.  The payment is
\* committed as completed (lines 194-196) before line 202 evaluates
\* PaymentStatus.PAID.
process_payment_webhook_result(event_type, transaction_id) ==
    LET p == get_by_transaction_id(transaction_id) IN
    IF \/ ~webhook_event_processed(event_type)
       \/ transaction_id = Null
       \/ p = 0
    THEN "None"
    ELSE IF ~enrollment_get(payments[p].enrollment_id) THEN "ok"
    ELSE IF "PAID" \in PaymentStatusNames THEN "ok"
    ELSE "AttributeError"

\* process_payment_webhook, lines 163-205: what the call writes
process_payment_webhook_writes(event_type, transaction_id) ==
    LET p == get_by_transaction_id(transaction_id)
        r == process_payment_webhook_result(event_type, transaction_id) IN
    IF r = "None"
    THEN UNCHANGED <<payments, enrollments>>
    ELSE /\ payments' = [payments EXCEPT ![p].status = "completed"]
         /\ enrollments' =
               IF /\ enrollment_get(payments[p].enrollment_id)
                  /\ "PAID" \in PaymentStatusNames
               THEN update_payment_status(enrollments,
                        payments[p].enrollment_id, "paid")
               ELSE enrollments

\* process_payment_webhook, lines 163-205
process_payment_webhook(event_type, transaction_id) ==
    LET r == process_payment_webhook_result(event_type, transaction_id) IN
    /\ process_payment_webhook_writes(event_type, transaction_id)
    /\ resp' = WebhookResponse(r, IF r = "AttributeError" THEN "PAID" ELSE "",
                               get_by_transaction_id(transaction_id),
                               event_type, transaction_id)
    /\ UNCHANGED <<courses, created_capacity, schedule_tables, notification_tables, refund_calls,
                   reqs>>

\* (mutant) refund_payment also takes a pending payment
refundable_or_pending(payment) == payment.status \in {"completed", "pending"}

\* line 232
refundable(payment) == payment.status = "completed"

\* (mutant) the refund is not carried over to the enrollment
refund_enrollment_skipped(rows, enrollment_id) == rows

\* lines 248-254: the enrollment of a refunded payment, when it exists
refund_enrollment(rows, enrollment_id) ==
    IF enrollment_id \in DOMAIN rows
    THEN update_payment_status(rows, enrollment_id, "refunded")
    ELSE rows

\* refund_payment, lines 207-258.  refund is "ok" when the gateway call
\* returned and "error" when it raised.
refund_payment(payment_id, refund) ==
    /\ IF ~payment_get(payment_id)
       THEN /\ resp' = Response("refund_payment", "NotFound",
                                "Payment not found", 0, 0, payment_id)
            /\ UNCHANGED <<payments, enrollments, refund_calls>>
       ELSE IF ~refundable(payments[payment_id])
       THEN /\ resp' = Response("refund_payment", "Validation",
                                "Only completed payments can be refunded",
                                0, 0, payment_id)
            /\ UNCHANGED <<payments, enrollments, refund_calls>>
       ELSE IF payments[payment_id].transaction_id = Null
       THEN /\ resp' = Response("refund_payment", "Validation",
                                "Payment has no transaction ID", 0, 0, payment_id)
            /\ UNCHANGED <<payments, enrollments, refund_calls>>
       ELSE /\ Len(refund_calls[payment_id]) < MaxRefunds
            /\ refund_calls' =                                    \* line 240
                  [refund_calls EXCEPT ![payment_id] = Append(@, refund)]
            /\ IF refund = "error"
               THEN /\ resp' = Response("refund_payment", "Validation",
                                        "Refund failed", 0, 0, payment_id)
                    /\ UNCHANGED <<payments, enrollments>>
               ELSE /\ payments' =
                          [payments EXCEPT ![payment_id].status = "refunded"]
                    /\ enrollments' =
                          refund_enrollment(enrollments,
                                            payments[payment_id].enrollment_id)
                    /\ resp' = Response("refund_payment", "ok", "", 0, 0,
                                        payment_id)
    /\ UNCHANGED <<courses, created_capacity, schedule_tables, notification_tables, reqs>>

----------------------------------------------------------------------------
(* Interleaved refund_payment requests.  The endpoint is a coroutine and
   the service awaits the gateway (line 240); each request has its own
   database session and nothing locks or marks the payment row before the
   call, so another request can run between the guard of lines 228-236
   together with the issued call and the writes of lines 245-254. *)

\* lines 228-242: the request reads the payment, raises, or issues the
\* gateway refund call and waits for it.  refund is what the call will
\* answer: "ok" when it returns, "error" when it raises.
refund_payment_begin(w, payment_id, refund) ==
    /\ reqs[w].pc = "idle"
    /\ IF ~payment_get(payment_id)
       THEN /\ resp' = Response("refund_payment", "NotFound",
                                "Payment not found", 0, 0, payment_id)
            /\ UNCHANGED <<refund_calls, reqs>>
       ELSE IF ~refundable(payments[payment_id])
       THEN /\ resp' = Response("refund_payment", "Validation",
                                "Only completed payments can be refunded",
                                0, 0, payment_id)
            /\ UNCHANGED <<refund_calls, reqs>>
       ELSE IF payments[payment_id].transaction_id = Null
       THEN /\ resp' = Response("refund_payment", "Validation",
                                "Payment has no transaction ID", 0, 0, payment_id)
            /\ UNCHANGED <<refund_calls, reqs>>
       ELSE /\ Len(refund_calls[payment_id]) < MaxRefunds
            /\ refund_calls' =                                    \* line 240
                  [refund_calls EXCEPT ![payment_id] = Append(@, refund)]
            /\ reqs' = [reqs EXCEPT ![w] =
                           [pc |-> "refund_await", payment_id |-> payment_id,
                            refund |-> refund]]
            /\ UNCHANGED resp
    /\ UNCHANGED <<courses, created_capacity, schedule_tables, enrollments,
                   payments, notification_tables>>

\* lines 244-258: the gateway call has answered; the request writes the
\* payment it read before the call, and the payment's enrollment
refund_payment_finish(w) ==
    /\ reqs[w].pc = "refund_await"
    /\ IF reqs[w].refund = "error"
       THEN /\ resp' = Response("refund_payment", "Validation",
                                "Refund failed", 0, 0, reqs[w].payment_id)
            /\ UNCHANGED <<payments, enrollments>>
       ELSE /\ payments' =
                  [payments EXCEPT ![reqs[w].payment_id].status = "refunded"]
            /\ enrollments' =
                  refund_enrollment(enrollments,
                                    payments[reqs[w].payment_id].enrollment_id)
            /\ resp' = Response("refund_payment", "ok", "", 0, 0,
                                reqs[w].payment_id)
    /\ reqs' = [reqs EXCEPT ![w] = Idle]
    /\ UNCHANGED <<courses, created_capacity, schedule_tables, refund_calls,
                   notification_tables>>

----------------------------------------------------------------------------
(* The webhook endpoint: api/v1/endpoints/payments.py *)

\* The JSON body of POST /payments/webhook, as far as the handler reads it:
\* "type", then "data" and "data.object", each absent, null or an object,
\* then "data.object.id" (Unset when absent).
WebhookPayload(types, ids) ==
    {pl \in [type : types, data : {"absent", "null", "dict"},
             object : {"absent", "null", "dict"}, id : ids \cup {Unset}] :
        /\ pl.data # "dict" => pl.object = "absent"
        /\ pl.object # "dict" => pl.id = Unset}

\* POST /payments/webhook, webhook_received, lines 378-420.  Lines 392-393
\* read the payload before the try block is entered: payload.get("data", {})
\* is None for "data": null, and None.get raises.  Inside the try block every
\* exception is answered as success.
api_webhook_received(payload) ==
    LET transaction_id == IF payload.id = Unset THEN Null ELSE payload.id
        r == process_payment_webhook_result(payload.type, transaction_id)
        p == get_by_transaction_id(transaction_id)
    IN
    /\ IF payload.data = "null"
       THEN /\ resp' = ApiResponse("api_webhook_received", "500",
                                   "AttributeError", 0, 0)
            /\ UNCHANGED <<payments, enrollments, notifications>>
       ELSE IF payload.object = "null"
       THEN \* event_data is None: the service returns None or raises at line 185
            /\ resp' = ApiResponse("api_webhook_received", "200", "success", 0, 0)
            /\ UNCHANGED <<payments, enrollments, notifications>>
       ELSE /\ process_payment_webhook_writes(payload.type, transaction_id)
            /\ notifications' =
                  \* lines 402-414: the service returned a completed payment
                  IF r = "ok" /\ enrollment_get(payments[p].enrollment_id)
                  THEN create_system_notification(notifications,
                           enrollments[payments[p].enrollment_id].student_id,
                           "Payment Successful", p, "payment")
                  ELSE notifications
            /\ resp' = ApiResponse("api_webhook_received", "200", "success", 0, p)
    /\ UNCHANGED <<courses, created_capacity, schedule_tables, refund_calls, reqs>>

----------------------------------------------------------------------------
(* ScheduleService (services/schedule_service.py) over CRUDSchedule
   (crud/crud_schedule.py) *)

\* a time of day; datetime.time values compare by (hour, minute), and the
\* times used here fall on half hours
HalfHour(hour, minute) == 2 * hour + (minute \div 30)

\* ScheduleCreate: every field carried by the body; validate_end_time
\* refuses end_time <= start_time
ScheduleCreate(cids, days, times, actives) ==
    { [course_id |-> c, day_of_week |-> d, start_time |-> s, end_time |-> e,
       is_active |-> a] :
        c \in cids, d \in days, a \in actives,
        <<s, e>> \in { slot \in times \X times : slot[2] > slot[1] } }

\* the fields of ScheduleUpdate modelled, all optional, none validated
\* against another
ScheduleUpdateFields == {"day_of_week", "start_time", "end_time", "is_active"}

\* ScheduleUpdate: fields_set names the fields the body carries; a field the
\* body leaves out is None on the object and is not written by the update
ScheduleUpdate(fieldsets, days, starts, ends, actives) ==
    UNION { { [fields_set |-> f, day_of_week |-> d, start_time |-> s,
               end_time |-> e, is_active |-> a] :
                d \in IF "day_of_week" \in f THEN days ELSE {0},
                s \in IF "start_time" \in f THEN starts ELSE {0},
                e \in IF "end_time" \in f THEN ends ELSE {0},
                a \in IF "is_active" \in f THEN actives ELSE {FALSE} } :
            f \in fieldsets }

\* obj_in.<field> is not None
is_not_none(obj_in, field) == field \in obj_in.fields_set

\* crud_schedule.get: None when absent
schedule_get(id) == id \in DOMAIN schedules

\* CRUDSchedule.get_overlapping_schedules, lines 127-167: the ids of the rows
\* the query returns; exclude_id is 0 for None
get_overlapping_schedules(rows, day_of_week, start_time, end_time, exclude_id) ==
    { i \in DOMAIN rows :
        /\ rows[i].day_of_week = day_of_week
        /\ rows[i].start_time < end_time
        /\ rows[i].end_time > start_time
        /\ rows[i].is_active
        /\ (exclude_id # 0 => i # exclude_id) }

\* ScheduleRepository.get_overlapping_schedules, lines 213-247: the same
\* query without the is_active condition
repository_get_overlapping_schedules(rows, day_of_week, start_time, end_time, exclude_id) ==
    { i \in DOMAIN rows :
        /\ rows[i].day_of_week = day_of_week
        /\ rows[i].end_time > start_time
        /\ rows[i].start_time < end_time
        /\ (exclude_id # 0 => i # exclude_id) }

\* CRUDBase.update of a schedule row: the fields the body carries are written
crud_schedule_update(row, obj_in) ==
    [f \in DOMAIN row |-> IF f \in obj_in.fields_set THEN obj_in[f] ELSE row[f]]

\* the outcome of a schedule service call, with the request it answered
ScheduleResponse(op, result, detail, id, obj_in) ==
    [op |-> op, result |-> result, detail |-> detail, id |-> id,
     obj_in |-> obj_in]

\* create_schedule, lines 70-108
create_schedule(obj_in) ==
    /\ Len(schedules) < MaxSchedules
    /\ IF ~course_get(obj_in.course_id)
       THEN /\ resp' = ScheduleResponse("create_schedule", "NotFound",
                                        "Course not found", 0, obj_in)
            /\ UNCHANGED schedules
       ELSE IF get_overlapping_schedules(schedules, obj_in.day_of_week,
                   obj_in.start_time, obj_in.end_time, 0) # {}
       THEN /\ resp' = ScheduleResponse("create_schedule", "Validation",
                           "Schedule overlaps with existing schedule", 0, obj_in)
            /\ UNCHANGED schedules
       ELSE /\ schedules' = Append(schedules, obj_in)
            /\ resp' = ScheduleResponse("create_schedule", "ok", "",
                                        Len(schedules) + 1, obj_in)
    /\ UNCHANGED <<courses, created_capacity, enrollments, payment_tables,
                   notification_tables, reqs>>

\* lines 138-143: the overlap check is made when the body carries a day or a
\* time
update_checks_overlap(obj_in) ==
    \/ is_not_none(obj_in, "day_of_week")
    \/ is_not_none(obj_in, "start_time")
    \/ is_not_none(obj_in, "end_time")

\* lines 144-147: new values if provided, otherwise the existing values
update_schedule_slot(schedule, obj_in) ==
    [day_of_week |-> IF is_not_none(obj_in, "day_of_week")
                     THEN obj_in.day_of_week ELSE schedule.day_of_week,
     start_time |-> IF is_not_none(obj_in, "start_time")
                    THEN obj_in.start_time ELSE schedule.start_time,
     end_time |-> IF is_not_none(obj_in, "end_time")
                  THEN obj_in.end_time ELSE schedule.end_time]

\* update_schedule, lines 110-162
update_schedule(id, obj_in) ==
    /\ IF ~schedule_get(id)
       THEN /\ resp' = ScheduleResponse("update_schedule", "NotFound",
                                        "Schedule not found", id, obj_in)
            /\ UNCHANGED schedules
       ELSE LET slot == update_schedule_slot(schedules[id], obj_in) IN
            IF /\ update_checks_overlap(obj_in)
               /\ get_overlapping_schedules(schedules, slot.day_of_week,
                      slot.start_time, slot.end_time, id) # {}
            THEN /\ resp' = ScheduleResponse("update_schedule", "Validation",
                      "Schedule would overlap with existing schedule", id, obj_in)
                 /\ UNCHANGED schedules
            ELSE /\ schedules' = [schedules EXCEPT
                                    ![id] = crud_schedule_update(@, obj_in)]
                 /\ resp' = ScheduleResponse("update_schedule", "ok", "", id,
                                             obj_in)
    /\ UNCHANGED <<courses, created_capacity, enrollments, payment_tables,
                   notification_tables, reqs>>

\* the outcome of an overlap query, with its arguments
OverlapResponse(op, day_of_week, start_time, end_time, exclude_id, rows) ==
    [op |-> op, day_of_week |-> day_of_week, start_time |-> start_time,
     end_time |-> end_time, exclude_id |-> exclude_id, rows |-> rows]

\* a call of CRUDSchedule.get_overlapping_schedules on the table
crud_overlap_query(day_of_week, start_time, end_time, exclude_id) ==
    /\ resp' = OverlapResponse("crud.get_overlapping_schedules", day_of_week,
                   start_time, end_time, exclude_id,
                   get_overlapping_schedules(schedules, day_of_week, start_time,
                                             end_time, exclude_id))
    /\ UNCHANGED <<courses, created_capacity, enrollments, payment_tables,
                   notification_tables, schedule_tables, reqs>>

\* a call of ScheduleRepository.get_overlapping_schedules on the table
repository_overlap_query(day_of_week, start_time, end_time, exclude_id) ==
    /\ resp' = OverlapResponse("repository.get_overlapping_schedules",
                   day_of_week, start_time, end_time, exclude_id,
                   repository_get_overlapping_schedules(schedules, day_of_week,
                       start_time, end_time, exclude_id))
    /\ UNCHANGED <<courses, created_capacity, enrollments, payment_tables,
                   notification_tables, schedule_tables, reqs>>

----------------------------------------------------------------------------
(* Inputs *)

StudentIds == {1, 2, 3} \cup Absent      \* two students, an instructor, nobody
CourseIds == Courses \cup Absent
EnrollmentIds == (1 .. 2) \cup Absent

\* request bodies of create_enrollment: status left at its default or set
\* by the client (payment_status, settable the same way, is left at its default)
CreateBodies ==
    EnrollmentCreate(StudentIds, CourseIds, EnrollmentStatus, {"pending"}, {NoNotes})

DefaultCreateBodies ==
    EnrollmentCreate(StudentIds, CourseIds, {"pending"}, {"pending"}, {NoNotes})

UpdateBodies ==
    EnrollmentUpdate({Unset, Null} \cup EnrollmentStatus, {Unset}, {Unset})

Reasons == {NoNotes, <<"r">>}

\* inputs of the payment service
PaymentIds == (1 .. 2) \cup Absent
Amounts == {0, 50}
PaymentBodies ==
    PaymentCreate({1} \cup Absent, Amounts, {Null, "pi_1"}, PaymentStatus)
PayingStudents ==
    EnrollmentCreate({1}, Courses, {"pending"}, {"pending"}, {NoNotes})
EventTypes == {"payment_intent.succeeded", "payment_intent.payment_failed"}

WebhookPayloads == WebhookPayload(EventTypes, IntentIds)

\* request bodies of PUT /enrollments/{id}
ApiUpdateBodies ==
    EnrollmentUpdate({Unset, Null, "approved"}, {Unset, "paid"},
                     {Unset, ClientNotes})

----------------------------------------------------------------------------
(* Initial state: one course, created by CourseService.create_course with a
   capacity >= 1 (CourseCreate.capacity has ge=1), active, taught by user 3;
   all other tables empty. *)

Init ==
    /\ \E k \in 1 .. MaxCapacity :
          /\ courses = [c \in Courses |->
                          [capacity |-> k, is_active |-> TRUE, instructor_id |-> 3]]
          /\ created_capacity = [c \in Courses |-> k]
    /\ enrollments = <<>>
    /\ payments = <<>>
    /\ refund_calls = <<>>
    /\ notifications = <<>>
    /\ schedules = <<>>
    /\ reqs = [w \in Workers |-> Idle]
    /\ resp = NoResponse

(* The enrollment service, one request at a time *)

CreateEnrollment == \E obj_in \in CreateBodies : create_enrollment(obj_in)
UpdateEnrollment ==
    \E id \in EnrollmentIds, obj_in \in UpdateBodies : update_enrollment(id, obj_in)
ApproveEnrollment == \E id \in EnrollmentIds : approve_enrollment(id)
RejectEnrollment ==
    \E id \in EnrollmentIds, reason \in Reasons : reject_enrollment(id, reason)
CancelEnrollment == \E id \in EnrollmentIds : cancel_enrollment(id)
CompleteEnrollment == \E id \in EnrollmentIds : complete_enrollment(id)
UpdateCourse == \E id \in CourseIds, a \in BOOLEAN : update_course(id, a)

Next ==
    \/ CreateEnrollment
    \/ UpdateEnrollment
    \/ ApproveEnrollment
    \/ RejectEnrollment
    \/ CancelEnrollment
    \/ CompleteEnrollment
    \/ UpdateCourse

Spec == Init /\ [][Next]_vars

(* create_enrollment requests of several workers, interleaved *)

CreateValidate ==
    \E w \in Workers, obj_in \in DefaultCreateBodies :
        create_enrollment_validate(w, obj_in)
CreateInsert == \E w \in Workers : create_enrollment_insert(w)
CreateCapacityRead == \E w \in Workers : create_enrollment_capacity_read(w)
CreateCapacityWrite == \E w \in Workers : create_enrollment_capacity_write(w)

NextConc ==
    \/ CreateValidate
    \/ CreateInsert
    \/ CreateCapacityRead
    \/ CreateCapacityWrite

SpecConc == Init /\ [][NextConc]_vars

(* The payment service, with the enrollments that are paid for *)

PayCreateEnrollment == \E b \in PayingStudents : create_enrollment(b)
CreatePayment == \E b \in PaymentBodies : create_payment(b)
CreatePaymentIntent ==
    \E id \in PaymentIds, intent \in IntentIds \cup {"error"} :
        create_payment_intent(id, intent)
ProcessPaymentWebhook ==
    \E e \in EventTypes, t \in IntentIds \cup {Null} :
        process_payment_webhook(e, t)
RefundPayment ==
    \E id \in PaymentIds, refund \in {"ok", "error"} : refund_payment(id, refund)

NextPay ==
    \/ PayCreateEnrollment
    \/ CreatePayment
    \/ CreatePaymentIntent
    \/ ProcessPaymentWebhook
    \/ RefundPayment

SpecPay == Init /\ [][NextPay]_vars

(* Refund requests in flight, with the payments the gateway completes *)

RefundPaymentBegin ==
    \E w \in Workers, id \in PaymentIds, refund \in {"ok", "error"} :
        refund_payment_begin(w, id, refund)
RefundPaymentFinish == \E w \in Workers : refund_payment_finish(w)

NextRefund ==
    \/ PayCreateEnrollment
    \/ CreatePayment
    \/ ProcessPaymentWebhook
    \/ RefundPaymentBegin
    \/ RefundPaymentFinish

SpecRefund == Init /\ [][NextRefund]_vars

(* The webhook endpoint, with the payments the gateway reports on *)

ApiWebhookReceived == \E pl \in WebhookPayloads : api_webhook_received(pl)

NextWebhook ==
    \/ PayCreateEnrollment
    \/ CreatePayment
    \/ ApiWebhookReceived

SpecWebhook == Init /\ [][NextWebhook]_vars

(* Requests to the enrollment endpoints by the authenticated users *)

ApiCreateEnrollment ==
    \E u \in Users, b \in DefaultCreateBodies : api_create_enrollment(u, b)
ApiUpdateEnrollment ==
    \E u \in Users, id \in EnrollmentIds, b \in ApiUpdateBodies :
        api_update_enrollment(u, id, b)

NextApi ==
    \/ ApiCreateEnrollment
    \/ ApiUpdateEnrollment

SpecApi == Init /\ [][NextApi]_vars

(* The schedule service *)

\* inputs of the schedule service: two days, and the slots [9:00,10:00),
\* [9:30,10:30) and [10:00,11:00)
Days == {0, 1}
Slots == {<<HalfHour(9, 0), HalfHour(10, 0)>>,
          <<HalfHour(9, 30), HalfHour(10, 30)>>,
          <<HalfHour(10, 0), HalfHour(11, 0)>>}
ScheduleIds == (1 .. 2) \cup Absent
ScheduleBodies ==
    { obj_in \in ScheduleCreate(CourseIds, Days,
                                { slot[1] : slot \in Slots } \cup
                                { slot[2] : slot \in Slots }, BOOLEAN) :
        <<obj_in.start_time, obj_in.end_time>> \in Slots }
ScheduleUpdateBodies ==
    ScheduleUpdate({{}, {"is_active"}, {"day_of_week"}, {"start_time"},
                    {"start_time", "end_time"}},
                   Days, {HalfHour(10, 0)}, {HalfHour(11, 0)}, BOOLEAN)

CreateSchedule == \E obj_in \in ScheduleBodies : create_schedule(obj_in)
UpdateSchedule ==
    \E id \in ScheduleIds, obj_in \in ScheduleUpdateBodies :
        update_schedule(id, obj_in)
CrudOverlapQuery ==
    \E d \in Days, slot \in Slots, x \in 0 .. 1 :
        crud_overlap_query(d, slot[1], slot[2], x)
RepositoryOverlapQuery ==
    \E d \in Days, slot \in Slots, x \in 0 .. 1 :
        repository_overlap_query(d, slot[1], slot[2], x)

NextSched ==
    \/ CreateSchedule
    \/ UpdateSchedule
    \/ CrudOverlapQuery
    \/ RepositoryOverlapQuery

SpecSched == Init /\ [][NextSched]_vars

(* The notification service and the bulk delete endpoint *)

\* user 1 receives any number of notifications, user 2 at most MaxOthers
Recipients == {1, 2}
Owned(rows, u) == { i \in DOMAIN rows : rows[i].user_id = u }

CreateSystemNotification ==
    \E u \in Recipients, wants_email \in BOOLEAN, smtp \in SmtpOutcomes :
        /\ u = 2 => Cardinality(Owned(notifications, u)) < MaxOthers
        /\ wants_email \/ smtp = "sent"
        /\ create_notification(u, "System", wants_email, smtp)
DeleteAllNotifications == \E u \in Recipients : delete_all_notifications(u)

NextNotify ==
    \/ CreateSystemNotification
    \/ DeleteAllNotifications

SpecNotify == Init /\ [][NextNotify]_vars

(* Direct calls of the CRUD layer *)

CapacityChanges == {-1, 1}
CrudCreateBodies ==
    EnrollmentCreate({1, 2}, Courses, {"pending"}, {"pending"}, {NoNotes})
CrudUpdateBodies ==
    EnrollmentUpdate({Unset, Null, "approved"}, {Unset, "paid"},
                     {Unset, Null, ClientNotes})

CrudUpdateCapacity ==
    \E id \in CourseIds, change \in CapacityChanges : crud_update_capacity(id, change)
CrudCreate == \E obj_in \in CrudCreateBodies : crud_create(obj_in)
CrudUpdate ==
    \E id \in EnrollmentIds, obj_in \in CrudUpdateBodies : crud_update(id, obj_in)

NextCrud ==
    \/ CrudUpdateCapacity
    \/ CrudCreate
    \/ CrudUpdate

SpecCrud == Init /\ [][NextCrud]_vars

(* The five workflow calls of the enrollment service, one request at a time *)

NextSeats ==
    \/ CreateEnrollment
    \/ ApproveEnrollment
    \/ RejectEnrollment
    \/ CancelEnrollment
    \/ CompleteEnrollment

SpecSeats == Init /\ [][NextSeats]_vars

----------------------------------------------------------------------------
(* Claims about the enrollment service, one request at a time *)

\* enrollments of course c that hold a seat: status pending or approved
ActiveCount(c) ==
    Cardinality({i \in DOMAIN enrollments :
                    /\ enrollments[i].course_id = c
                    /\ enrollments[i].status \in {"pending", "approved"}})

Created == resp.op = "create_enrollment" /\ resp.result = "ok"

\* the enrollments table holds a row of the (student, course) pair
PairEnrolled(student_id, course_id) ==
    \E i \in DOMAIN enrollments :
        /\ enrollments[i].student_id = student_id
        /\ enrollments[i].course_id = course_id

\* C1: whenever create_enrollment accepts an enrollment for a course created
\* with capacity K, the course's pending and approved enrollments, the new one
\* included, number at most K.
C1_AcceptedWithinCreatedCapacity ==
    Created => ActiveCount(resp.course_id) <= created_capacity[resp.course_id]

\* C2 as claimed: create_enrollment by a student on an existing course fails
\* with a Validation error and creates nothing whenever the course's pending
\* and approved enrollments number at least the course's current capacity value.
C2_FullWhenCountReachesCapacity ==
    [][(/\ resp'.op = "create_enrollment"
        /\ user_get(resp'.student_id) /\ is_student(resp'.student_id)
        /\ course_get(resp'.course_id)
        /\ ActiveCount(resp'.course_id) >= courses[resp'.course_id].capacity)
       => (resp'.result = "Validation" /\ enrollments' = enrollments)]_vars

\* C2 amended: create_enrollment for an existing user and an existing course
\* fails with a Validation error and creates nothing whenever the course's
\* current capacity value (the seats left) is zero or less; the number of
\* pending and approved enrollments is not compared with it.
C2_FullWhenNoSeatLeft ==
    [][(/\ resp'.op = "create_enrollment"
        /\ user_get(resp'.student_id)
        /\ course_get(resp'.course_id)
        /\ courses[resp'.course_id].capacity <= 0)
       => (/\ resp'.result = "Validation"
           /\ enrollments' = enrollments
           /\ courses' = courses)]_vars

\* a student not yet enrolled was refused as "Course is full" on an active
\* course with no seat left
C2_Witness ==
    /\ resp.op = "create_enrollment"
    /\ resp.result = "Validation" /\ resp.detail = "Course is full"
    /\ courses[resp.course_id].capacity = 0
    /\ ~PairEnrolled(resp.student_id, resp.course_id)

\* C3: with an enrollment of the (student, course) pair present, in any
\* status, create_enrollment for the pair fails with a Validation error and
\* leaves the enrollments and the course capacity unchanged.
C3_DuplicateRejected ==
    [][(/\ resp'.op = "create_enrollment"
        /\ PairEnrolled(resp'.student_id, resp'.course_id))
       => (/\ resp'.result = "Validation"
           /\ enrollments' = enrollments
           /\ courses' = courses)]_vars

\* a second enrollment was refused for a student whose enrollment is
\* rejected, on a course with a seat left
C3_Witness ==
    /\ resp.op = "create_enrollment"
    /\ resp.result = "Validation"
    /\ resp.detail = "Student is already enrolled in this course"
    /\ \E i \in DOMAIN enrollments :
          /\ enrollments[i].student_id = resp.student_id
          /\ enrollments[i].course_id = resp.course_id
          /\ enrollments[i].status = "rejected"
    /\ courses[resp.course_id].capacity > 0

\* C5 as claimed: create_enrollment on an inactive course ends in a Validation
\* error whatever the other inputs, the student_id included.
C5_InactiveAlwaysValidation ==
    [][(/\ resp'.op = "create_enrollment"
        /\ course_get(resp'.course_id)
        /\ ~courses[resp'.course_id].is_active)
       => resp'.result = "Validation"]_vars

\* C5 amended: create_enrollment on an inactive course ends in a Validation
\* error, whatever the capacity, when student_id names an existing user, and
\* in a NotFound error when it names none; nothing is created either way.
C5_InactiveValidationForKnownUser ==
    [][(/\ resp'.op = "create_enrollment"
        /\ course_get(resp'.course_id)
        /\ ~courses[resp'.course_id].is_active)
       => (/\ resp'.result =
                 IF user_get(resp'.student_id) THEN "Validation" ELSE "NotFound"
           /\ enrollments' = enrollments
           /\ courses' = courses)]_vars

\* a student with no enrollment was refused as "Course is not active" while
\* the course had seats left
C5_Witness ==
    /\ resp.op = "create_enrollment"
    /\ resp.result = "Validation" /\ resp.detail = "Course is not active"
    /\ courses[resp.course_id].capacity > 0
    /\ ~courses[resp.course_id].is_active
    /\ ~PairEnrolled(resp.student_id, resp.course_id)

\* C6: a successful create_enrollment inserts a row with status pending and
\* payment_status pending, for every accepted body, and lowers the course's
\* capacity by exactly one.
C6_CreatedPending ==
    [][(resp'.op = "create_enrollment" /\ resp'.result = "ok")
       => (/\ Len(enrollments') = Len(enrollments) + 1
           /\ enrollments'[resp'.id].status = "pending"
           /\ enrollments'[resp'.id].payment_status = "pending"
           /\ courses'[resp'.course_id].capacity =
                  courses[resp'.course_id].capacity - 1)]_vars

StatusTransitions ==
    {<<"pending", "approved">>, <<"pending", "rejected">>,
     <<"approved", "completed">>, <<"approved", "rejected">>}

\* C7: rejected and completed are terminal, and the only status changes that
\* occur are pending->approved, pending->rejected, approved->completed and
\* approved->rejected.
C7_StatusMachine ==
    [][\A id \in DOMAIN enrollments :
          enrollments'[id].status # enrollments[id].status
          => <<enrollments[id].status, enrollments'[id].status>>
                 \in StatusTransitions]_vars

\* the statuses in which each workflow call is claimed to succeed
AllowedFrom(op) ==
    CASE op = "approve_enrollment"  -> {"pending"}
      [] op = "reject_enrollment"   -> {"pending"}
      [] op = "complete_enrollment" -> {"approved"}
      [] op = "cancel_enrollment"   -> {"pending", "approved"}

MovesTo(op) ==
    CASE op = "approve_enrollment"  -> "approved"
      [] op = "reject_enrollment"   -> "rejected"
      [] op = "complete_enrollment" -> "completed"
      [] op = "cancel_enrollment"   -> "rejected"

WorkflowOps ==
    {"approve_enrollment", "reject_enrollment", "complete_enrollment",
     "cancel_enrollment"}

\* C8: approve and reject succeed only on a pending enrollment, complete only
\* on an approved one, cancel only on a pending or approved one; in every
\* other status the call fails with a Validation error and leaves the
\* enrollments and the course unchanged.
C8_WorkflowGuards ==
    [][(resp'.op \in WorkflowOps /\ enrollment_get(resp'.id))
       => IF enrollments[resp'.id].status \in AllowedFrom(resp'.op)
          THEN /\ resp'.result = "ok"
               /\ enrollments'[resp'.id].status = MovesTo(resp'.op)
          ELSE /\ resp'.result = "Validation"
               /\ enrollments' = enrollments
               /\ courses' = courses]_vars

\* a reject was refused on a completed enrollment
C8_Witness ==
    /\ resp.op = "reject_enrollment"
    /\ resp.result = "Validation"
    /\ enrollment_get(resp.id)
    /\ enrollments[resp.id].status = "completed"

----------------------------------------------------------------------------
(* Claims about interleaved requests *)

\* C4: in every reachable state, also when two create_enrollment requests for
\* one (student, course) pair interleave between the duplicate check and the
\* insert, there is at most one enrollment row per (student, course) pair.
C4_OneEnrollmentPerPair ==
    \A i, j \in DOMAIN enrollments :
        (/\ enrollments[i].student_id = enrollments[j].student_id
         /\ enrollments[i].course_id = enrollments[j].course_id) => i = j

----------------------------------------------------------------------------
(* Claims about the enrollment endpoints *)

\* C9: a request to the update endpoint changes an enrollment's status only
\* when the requester is an instructor or an admin, and changes its
\* payment_status only when the requester is an admin; so a student's request
\* changes neither and an instructor's request never changes payment_status.
C9_RoleLimitsOnUpdate ==
    [][resp'.op = "api_update_enrollment" =>
         \A id \in DOMAIN enrollments :
            /\ enrollments'[id].status # enrollments[id].status
                  => UserRole(resp'.user) \in {"instructor", "admin"}
            /\ enrollments'[id].payment_status # enrollments[id].payment_status
                  => UserRole(resp'.user) = "admin"]_vars

\* C9: a student's request to the update endpoint went through and set the notes
C9_Witness ==
    /\ resp.op = "api_update_enrollment"
    /\ resp.result = "200"
    /\ UserRole(resp.user) = "student"
    /\ enrollments[resp.id].notes = ClientNotes

----------------------------------------------------------------------------
(* Claims about payments *)

\* C10: a payment whose status is refunded or failed is not moved back to
\* completed by any later operation, a late payment_intent.succeeded webhook
\* included, and its enrollment is not moved back to paid.
C10_RefundedOrFailedIsFinal ==
    [][\A p \in DOMAIN payments :
          payments[p].status \in {"refunded", "failed"} =>
             /\ payments'[p].status # "completed"
             /\ LET e == payments[p].enrollment_id IN
                enrollments[e].payment_status # "paid"
                   => enrollments'[e].payment_status # "paid"]_vars

\* C11: refund_payment on a payment whose status is pending, failed or
\* refunded fails with Validation ("Only completed payments can be refunded"),
\* issues no gateway call and leaves the payment and the enrollment unchanged.
C11_RefundOnlyFromCompleted ==
    [][(/\ resp'.op = "refund_payment"
        /\ resp'.id \in DOMAIN payments
        /\ payments[resp'.id].status \in {"pending", "failed", "refunded"})
       => /\ resp'.result = "Validation"
          /\ resp'.detail = "Only completed payments can be refunded"
          /\ refund_calls' = refund_calls
          /\ payments' = payments
          /\ enrollments' = enrollments]_vars

\* C11: a refund of an already refunded payment was refused
C11_Witness ==
    /\ resp.op = "refund_payment"
    /\ resp.result = "Validation"
    /\ resp.detail = "Only completed payments can be refunded"
    /\ payments[resp.id].status = "refunded"
    /\ Len(refund_calls[resp.id]) = 1

\* the gateway refund call that the step issued for payment p, "none" if none
RefundCallIssued(p) ==
    IF Len(refund_calls'[p]) = Len(refund_calls[p]) + 1
    THEN refund_calls'[p][Len(refund_calls'[p])]
    ELSE "none"

\* C12: refund_payment on a completed payment: when the gateway refund call
\* succeeds the payment becomes refunded and its enrollment's payment_status
\* becomes refunded; when the gateway call fails a Validation error is raised
\* and neither the payment nor the enrollment is modified.
C12_RefundOutcome ==
    [][(/\ resp'.op = "refund_payment"
        /\ resp'.id \in DOMAIN payments
        /\ payments[resp'.id].status = "completed")
       => LET p == resp'.id
              e == payments[p].enrollment_id IN
          /\ RefundCallIssued(p) = "ok"
                => /\ resp'.result = "ok"
                   /\ payments' = [payments EXCEPT ![p].status = "refunded"]
                   /\ enrollments' =
                         [enrollments EXCEPT ![e].payment_status = "refunded"]
          /\ RefundCallIssued(p) = "error"
                => /\ resp'.result = "Validation"
                   /\ payments' = payments
                   /\ enrollments' = enrollments]_vars

\* C12: a successful refund of a completed payment, after a failed one
C12_Witness ==
    /\ resp.op = "refund_payment"
    /\ resp.result = "ok"
    /\ refund_calls[resp.id] = <<"error", "ok">>
    /\ payments[resp.id].status = "refunded"
    /\ enrollments[payments[resp.id].enrollment_id].payment_status = "refunded"

\* C13: process_payment_webhook called with an event type other than
\* payment_intent.succeeded, or with no id, or with an id that is no payment's
\* transaction_id, modifies no payment row and no enrollment row.
C13_WebhookNoOp ==
    [][(/\ resp'.op = "process_payment_webhook"
        /\ \/ resp'.event_type # "payment_intent.succeeded"
           \/ resp'.transaction_id = Null
           \/ \A p \in DOMAIN payments :
                 payments[p].transaction_id # resp'.transaction_id)
       => /\ resp'.result = "None"
          /\ payments' = payments
          /\ enrollments' = enrollments]_vars

\* C13: an event of another type named the transaction of a pending payment
C13_Witness ==
    /\ resp.op = "process_payment_webhook"
    /\ resp.event_type = "payment_intent.payment_failed"
    /\ resp.result = "None"
    /\ \E p \in DOMAIN payments :
          /\ payments[p].transaction_id = resp.transaction_id
          /\ payments[p].status = "pending"

\* a delivery of payment_intent.succeeded for the transaction of payment p
\* has just been processed
Delivered(r, p) ==
    /\ r.op = "process_payment_webhook"
    /\ r.event_type = "payment_intent.succeeded"
    /\ r.transaction_id # Null
    /\ p \in DOMAIN payments
    /\ r.transaction_id = payments[p].transaction_id

\* C14: process_payment_webhook is idempotent: a delivery of
\* payment_intent.succeeded for a known transaction_id leaves the payment
\* completed and its enrollment paid, and the same delivery repeated right
\* after it leaves the payment and the enrollment exactly as they were.
C14_WebhookIdempotent ==
    [][\A p \in DOMAIN payments :
          Delivered(resp', p) =>
             /\ payments'[p].status = "completed"
             /\ enrollments'[payments[p].enrollment_id].payment_status = "paid"
             /\ Delivered(resp, p) =>
                   /\ payments' = payments
                   /\ enrollments' = enrollments]_vars

\* C15: the POST /payments/webhook handler answers every payload with the
\* success response, whether the processing succeeds, is a no-op or raises.
C15_WebhookAlwaysSuccess ==
    [][resp'.op = "api_webhook_received" => resp'.result = "200"]_vars

\* C16: create_payment fails with NotFound when the enrollment does not exist,
\* accepts no amount <= 0, and otherwise creates a payment row whose status is
\* pending, for every accepted PaymentCreate input.
C16_CreatedPaymentPending ==
    [][resp'.op = "create_payment" =>
         /\ resp'.obj_in.amount > 0
         /\ ~enrollment_get(resp'.obj_in.enrollment_id)
               => resp'.result = "NotFound" /\ payments' = payments
         /\ resp'.result = "ok"
               => /\ Len(payments') = Len(payments) + 1
                  /\ payments'[resp'.id].enrollment_id = resp'.obj_in.enrollment_id
                  /\ payments'[resp'.id].status = "pending"]_vars

\* C17: create_payment_intent on an existing payment: when the gateway call
\* succeeds the intent id is stored as the payment's transaction_id and the
\* status is not changed; when the gateway call fails the payment's status is
\* set to failed and a Validation error is raised.
C17_IntentOutcome ==
    [][(resp'.op = "create_payment_intent" /\ resp'.id \in DOMAIN payments)
       => LET p == resp'.id IN
          /\ resp'.intent # "error"
                => /\ resp'.result = "ok"
                   /\ payments' =
                         [payments EXCEPT ![p].transaction_id = resp'.intent]
          /\ resp'.intent = "error"
                => /\ resp'.result = "Validation"
                   /\ payments' = [payments EXCEPT ![p].status = "failed"]]_vars

\* C17: a gateway error marked a payment failed that an earlier successful
\* call had given its transaction_id
C17_Witness ==
    /\ resp.op = "create_payment_intent"
    /\ resp.intent = "error"
    /\ resp.result = "Validation"
    /\ payments[resp.id].status = "failed"
    /\ payments[resp.id].transaction_id = "pi_2"

\* C18: a payment-gateway error moves an enrollment's payment_status from
\* pending to failed: a create_payment_intent call whose gateway call fails,
\* for a payment of an enrollment whose payment_status is pending, leaves that
\* enrollment with payment_status failed.
C18_GatewayErrorFailsEnrollment ==
    [][(/\ resp'.op = "create_payment_intent"
        /\ resp'.intent = "error"
        /\ resp'.id \in DOMAIN payments
        /\ enrollments[payments[resp'.id].enrollment_id].payment_status = "pending")
       => enrollments'[payments[resp'.id].enrollment_id].payment_status
             = "failed"]_vars


\* the (day_of_week, start_time, end_time) a schedule service call results
\* in: the body's for create_schedule, the row's with the body's fields
\* written over it for update_schedule
ResultingSlot(r) ==
    IF r.op = "create_schedule"
    THEN [day_of_week |-> r.obj_in.day_of_week,
          start_time |-> r.obj_in.start_time, end_time |-> r.obj_in.end_time]
    ELSE [f \in {"day_of_week", "start_time", "end_time"} |->
             IF f \in r.obj_in.fields_set THEN r.obj_in[f] ELSE schedules[r.id][f]]

\* an active schedule other than the call's own overlaps the resulting slot
OverlapsActive(r) ==
    \E j \in DOMAIN schedules :
        /\ r.op = "update_schedule" => j # r.id
        /\ schedules[j].is_active
        /\ schedules[j].day_of_week = ResultingSlot(r).day_of_week
        /\ schedules[j].start_time < ResultingSlot(r).end_time
        /\ ResultingSlot(r).start_time < schedules[j].end_time

\* C19: create_schedule (for a body that names an existing course) and
\* update_schedule (for an existing schedule) reject with a Validation error
\* and leave all schedules unchanged whenever the resulting (day_of_week,
\* start_time, end_time) overlaps an existing active schedule on the same
\* day, the updated schedule itself left out of the comparison.
C19_OverlapRejected ==
    [][(/\ \/ /\ resp'.op = "create_schedule"
              /\ resp'.obj_in.course_id \in Courses
           \/ /\ resp'.op = "update_schedule"
              /\ resp'.id \in DOMAIN schedules
        /\ OverlapsActive(resp'))
       => /\ resp'.result = "Validation"
          /\ schedules' = schedules]_vars

\* the overlap test of two half-open intervals [s1, e1) and [s2, e2)
Overlaps(s1, e1, s2, e2) == s1 < e2 /\ s2 < e1

\* the rows an overlap query is to return: the active rows on the day whose
\* interval overlaps [start_time, end_time), the excluded id left out
OverlappingActive(rows, q) ==
    { i \in DOMAIN rows :
        /\ rows[i].is_active
        /\ rows[i].day_of_week = q.day_of_week
        /\ Overlaps(rows[i].start_time, rows[i].end_time, q.start_time, q.end_time)
        /\ i # q.exclude_id }

OverlapQueries ==
    {"crud.get_overlapping_schedules", "repository.get_overlapping_schedules"}

\* C20: every get_overlapping_schedules(day, s, e) call returns exactly the
\* active schedules on that day whose interval [start_time, end_time) has
\* start_time < e and s < end_time; by that test [9:00,10:00) overlaps
\* [9:30,10:30) and not [10:00,11:00), and the test is symmetric.
C20_OverlapQueryExact ==
    [][ /\ resp'.op \in OverlapQueries =>
              resp'.rows = OverlappingActive(schedules, resp')
        /\ Overlaps(HalfHour(9, 0), HalfHour(10, 0), HalfHour(9, 30), HalfHour(10, 30))
        /\ ~Overlaps(HalfHour(9, 0), HalfHour(10, 0), HalfHour(10, 0), HalfHour(11, 0))
        /\ \A a \in Slots, b \in Slots :
              Overlaps(a[1], a[2], b[1], b[2]) = Overlaps(b[1], b[2], a[1], a[2])
      ]_vars

\* the statement of C20 for the query of the CRUD layer alone
C20_CrudOverlapQueryExact ==
    [][ resp'.op = "crud.get_overlapping_schedules" =>
            resp'.rows = OverlappingActive(schedules, resp') ]_vars


\* C21: every create_system_notification call appends one notification of
\* type system, unread, for the given user and returns it, also when the
\* email it was asked to send could not be delivered; no other row changes.
C21_SystemNotificationCreated ==
    [][resp'.op = "create_system_notification"
       => /\ resp'.result = "ok"
          /\ Len(notifications') = Len(notifications) + 1
          /\ SubSeq(notifications', 1, Len(notifications)) = notifications
          /\ resp'.id = Len(notifications')
          /\ notifications'[resp'.id].user_id = resp'.user_id
          /\ notifications'[resp'.id].notification_type = "system"
          /\ notifications'[resp'.id].is_read = FALSE]_vars

\* C21: a notification was created and returned although its email could not
\* be delivered
C21_Witness ==
    /\ resp.op = "create_system_notification"
    /\ resp.send_email
    /\ resp.email = "False"
    /\ resp.result = "ok"
    /\ resp.id = Len(notifications)
    /\ notifications[resp.id].user_id = resp.user_id
    /\ notifications[resp.id].notification_type = "system"


\* the notifications that user u does not own, in table order
NotOwnedBy(rows, u) ==
    LET other(row) == row.user_id # u IN SelectSeq(rows, other)

\* C22: after the "delete all notifications" operation completes for user U,
\* U owns no notification, whatever number U owned before, and every
\* notification owned by another user is unchanged.
C22_DeleteAllLeavesNone ==
    [][resp'.op = "delete_all_notifications"
       => /\ \A i \in DOMAIN notifications' :
                notifications'[i].user_id # resp'.user_id
          /\ NotOwnedBy(notifications', resp'.user_id)
                = NotOwnedBy(notifications, resp'.user_id)]_vars

\* the statement of C22 for a user who owns no more notifications than one
\* page of the list query
C22_DeleteAllWithinOnePage ==
    [][(/\ resp'.op = "delete_all_notifications"
        /\ Cardinality({ i \in DOMAIN notifications :
                           notifications[i].user_id = resp'.user_id }) <= DefaultLimit)
       => /\ \A i \in DOMAIN notifications' :
                notifications'[i].user_id # resp'.user_id
          /\ NotOwnedBy(notifications', resp'.user_id)
                = NotOwnedBy(notifications, resp'.user_id)]_vars


\* the error kinds of the enrollment endpoints, by the detail they carry
NotFoundDetails == {"Student not found", "Course not found", "Enrollment not found"}
ValidationDetails ==
    {"User is not a student", "Course is not active",
     "Student is already enrolled in this course", "Course is full"}
ForbiddenDetails ==
    {"Students can only enroll themselves", "Not authorized to update this enrollment",
     "Students can only update notes", "Instructors cannot update payment status"}

\* C23: the enrollment endpoints (create_enrollment, update_enrollment) answer
\* a NotFound (missing student, course or enrollment) with 404, a Validation
\* error with 400 and an authorization failure (role or ownership mismatch)
\* with 403; none of them is answered with 500.
C23_ErrorKindToStatus ==
    [][resp'.op \in {"api_create_enrollment", "api_update_enrollment"}
       => /\ resp'.detail \in NotFoundDetails => resp'.result = "404"
          /\ resp'.detail \in ValidationDetails => resp'.result = "400"
          /\ resp'.detail \in ForbiddenDetails => resp'.result = "403"]_vars


\* a call of crud_course.update_capacity on an existing course
CapacityCall(r) == r.op = "crud.update_capacity" /\ r.course_id \in Courses

\* C24: crud_course.update_capacity(course_id, change) sets the capacity to
\* the previous capacity plus change, so for every starting capacity a call
\* with change = -1 followed by a call with change = +1 restores the original
\* capacity.
C24_CapacityPlusChange ==
    [][CapacityCall(resp')
       => /\ courses'[resp'.course_id].capacity = resp'.before + resp'.change
          /\ (/\ CapacityCall(resp)
              /\ resp.course_id = resp'.course_id
              /\ resp.change = -1
              /\ resp'.change = 1)
             => courses'[resp'.course_id].capacity = resp.before]_vars

\* C24 (amended): the capacity becomes max(0, previous capacity + change);
\* a call with change = -1 followed by a call with change = +1 restores a
\* starting capacity of 1 or more, and turns a starting capacity of 0 into 1.
C24_CapacityClampedAtZero ==
    [][CapacityCall(resp')
       => /\ courses'[resp'.course_id].capacity =
                IF resp'.before + resp'.change < 0 THEN 0
                ELSE resp'.before + resp'.change
          /\ (/\ CapacityCall(resp)
              /\ resp.course_id = resp'.course_id
              /\ resp.change = -1
              /\ resp'.change = 1)
             => courses'[resp'.course_id].capacity =
                   IF resp.before = 0 THEN 1 ELSE resp.before]_vars

\* C24: update_capacity was called with change = -1 on a course that had no
\* seat left, and the capacity stayed 0
C24_Witness ==
    /\ CapacityCall(resp)
    /\ resp.change = -1
    /\ resp.before = 0
    /\ courses[resp.course_id].capacity = 0


\* the fields of an update object that were explicitly set
FieldsSet(obj_in) == { f \in DOMAIN obj_in : obj_in[f] # Unset }

\* the value a set field of the update object gives the row: None is stored
\* for an explicit null (the empty notes stand for None)
StoredValue(f, v) == IF f = "notes" /\ v = Null THEN NoNotes ELSE v

----------------------------------------------------------------------------
(* Claims about interleaved and sequential seat accounting *)

\* C26: when two create_enrollment requests for two different students on one
\* course with exactly one remaining seat interleave, both can pass the
\* capacity check before either commits, and both are then accepted: a
\* request that has passed the checks inserts its enrollment whatever the
\* other requests have committed since, so the course can end up with more
\* accepted enrollments than seats.
C26_ValidatedRequestInserts ==
    [][\A w \in Workers :
          (reqs[w].pc = "insert" /\ reqs'[w].pc # "insert")
          => /\ Len(enrollments') = Len(enrollments) + 1
             /\ enrollments'[Len(enrollments')].student_id = reqs[w].obj_in.student_id
             /\ enrollments'[Len(enrollments')].course_id = reqs[w].obj_in.course_id
             /\ enrollments'[Len(enrollments')].status = "pending"]_vars

\* C26: a course created with one seat holds the accepted enrollments of two
\* different students, both requests having returned
C26_Witness ==
    /\ created_capacity[1] = 1
    /\ \A w \in Workers : reqs[w].pc = "idle"
    /\ Len(enrollments) = 2
    /\ enrollments[1].student_id # enrollments[2].student_id
    /\ enrollments[1].course_id = 1 /\ enrollments[2].course_id = 1
    /\ enrollments[1].status = "pending" /\ enrollments[2].status = "pending"
    /\ resp.op = "create_enrollment" /\ resp.result = "ok"
    /\ courses[1].capacity = 0


\* enrollments of course c in status pending, approved or completed
SeatHolders(c) ==
    Cardinality({i \in DOMAIN enrollments :
                    /\ enrollments[i].course_id = c
                    /\ enrollments[i].status \in {"pending", "approved", "completed"}})

\* C27: after any sequence of create_enrollment, approve_enrollment,
\* reject_enrollment, cancel_enrollment and complete_enrollment calls run one
\* at a time on a course created with capacity K, the capacity is never
\* negative and capacity + (number of the course's enrollments in status
\* pending, approved or completed) = K.
C27_SeatConservation ==
    \A c \in Courses :
        /\ courses[c].capacity >= 0
        /\ courses[c].capacity + SeatHolders(c) = created_capacity[c]


----------------------------------------------------------------------------
(* Claims about the tables as a whole *)

\* C28: after any sequence of create_schedule and update_schedule calls
\* (updates that change only is_active included), no two schedules that are
\* both active and on the same day_of_week have overlapping
\* [start_time, end_time) intervals.
C28_NoActiveOverlap ==
    \A i, j \in DOMAIN schedules :
        (/\ i # j
         /\ schedules[i].is_active /\ schedules[j].is_active
         /\ schedules[i].day_of_week = schedules[j].day_of_week)
        => ~(/\ schedules[i].start_time < schedules[j].end_time
             /\ schedules[j].start_time < schedules[i].end_time)


\* the statuses of the payments of enrollment e
PaymentStatusesOf(e) ==
    { payments[p].status : p \in { q \in DOMAIN payments : payments[q].enrollment_id = e } }

\* C29: after any sequence of payment-service operations (create_payment,
\* create_payment_intent, process_payment_webhook, refund_payment), an
\* enrollment's payment_status is paid only if at least one of its payments
\* has status completed, and is refunded only if none of its payments has
\* status completed.
C29_EnrollmentFollowsPayments ==
    \A e \in DOMAIN enrollments :
        /\ enrollments[e].payment_status = "paid"
              => "completed" \in PaymentStatusesOf(e)
        /\ enrollments[e].payment_status = "refunded"
              => "completed" \notin PaymentStatusesOf(e)

----------------------------------------------------------------------------
(* Claims about interleaved refund requests *)

\* C30: for every payment the gateway refund call is issued at most once
\* over the payment's lifetime, also when two refund_payment requests for
\* the same payment interleave around the awaited gateway call.
C30_RefundIssuedAtMostOnce ==
    \A p \in DOMAIN refund_calls : Len(refund_calls[p]) <= 1

====
